---- MODULE Spec2Model ----
(***************************************************************************)
(* Inventory / order consistency core of StockAndPedidosAPI.               *)
(*                                                                         *)
(* The state is the content of the three MongoDB collections the use       *)
(* cases touch (Product, Order, OrderDetails).  Every action is one use    *)
(* case executed from its first store call to its return or throw, with    *)
(* the store calls translated from the Mongoose repositories:              *)
(*   - findByIdAndUpdate on an id that is not stored returns null and      *)
(*     writes nothing;                                                     *)
(*   - update validators do not run for $inc, so ProductSchema.stock       *)
(*     {min: 0} does not stop updateStock from storing a negative stock;   *)
(*   - the schemas are strict: a path of an update that the schema does    *)
(*     not declare is dropped from the update;                             *)
(*   - insertMany validates every document first and stores none of them   *)
(*     when one is invalid.                                                *)
(***************************************************************************)
EXTENDS Integers, Sequences, FiniteSets, TLC

(* ---------------------------- bounds ----------------------------------- *)
MaxSteps == 3          \* requests served in one run
MaxOrders == 2         \* orders ever created
MaxLines == 2          \* order lines ever created

(* ------------------------- request domains ----------------------------- *)
ProductIds == {"p1", "p2"}
UnknownProductId == "p9"
RequestProductIds == ProductIds \cup {UnknownProductId}
OrderIds == 1..MaxOrders
LineIds == 1..MaxLines
InitialProducts ==
  [p \in ProductIds |->
     IF p = "p1" THEN [price |-> 10, stock |-> 5] ELSE [price |-> 4, stock |-> 2]]
DetailLengths == 0..2      \* number of lines of a CreateOrder request
CreateAmounts == {2, 3}    \* amounts of a CreateOrder line
NewAmounts == 0..5         \* amounts of an UpdateOrderDetails request

VARIABLES
  products,     \* Product collection: id -> [price, stock]
  orders,       \* Order collection: id -> [total, status]
  lines,        \* OrderDetails collection: id -> [orderId, productId, amount, unitPrice, subtotal]
  nextOrderId,  \* the _id the store gives to the next Order document
  nextLineId,   \* the _id the store gives to the next OrderDetails document
  steps,        \* the number of requests served so far
  allOk,        \* TRUE while every request served so far has succeeded
  last,         \* the last request: use case, arguments, outcome and the collections before it
  roundTrip,    \* follows a cancellation that is immediately followed by a reactivation
  running       \* the requests in flight: each client's position and local constants

vars == <<products, orders, lines, nextOrderId, nextLineId, steps, allOk, last, roundTrip,
          running>>

(* ------------------------- store operations ---------------------------- *)
\* mutant: the validator min 0 of the schema stops a change to a negative stock
updateStockNotBelowZero(prods, productId, change) ==
  IF productId \in DOMAIN prods /\ prods[productId].stock + change >= 0
    THEN [prods EXCEPT ![productId].stock = @ + change]
    ELSE prods

\* mutant: the change is not applied
updateStockDropped(prods, productId, change) == prods

\* mutant: the change is applied with the opposite sign
updateStockReversed(prods, productId, change) ==
  IF productId \in DOMAIN prods
    THEN [prods EXCEPT ![productId].stock = @ - change]
    ELSE prods

\* ProductRepositoryMongo.updateStock: findByIdAndUpdate(id, {$inc: {stock: change}})
updateStock(prods, productId, change) ==
  IF productId \in DOMAIN prods
    THEN [prods EXCEPT ![productId].stock = @ + change]
    ELSE prods

\* Paths declared by OrderDetailsSchema
OrderDetailsPaths == {"orderId", "productId", "amount", "unitPrice", "subtotal"}

\* Paths declared by OrderSchema
OrderPaths == {"total", "status"}

\* findByIdAndUpdate(id, patch) under a strict schema: undeclared paths are dropped
StrictSet(doc, patch, paths) ==
  [f \in DOMAIN doc |->
     IF f \in (DOMAIN patch) \cap paths THEN patch[f] ELSE doc[f]]

\* OrderDetailsRepositoryMongo.update
orderDetailsUpdate(lns, id, patch) ==
  IF id \in DOMAIN lns
    THEN [lns EXCEPT ![id] = StrictSet(@, patch, OrderDetailsPaths)]
    ELSE lns

\* OrderRepositoryMongo.update with a plain payload (UpdateOrder)
orderUpdate(ords, id, patch) ==
  IF id \in DOMAIN ords
    THEN [ords EXCEPT ![id] = StrictSet(@, patch, OrderPaths)]
    ELSE ords

\* mutant: the total is overwritten with the delta instead of incremented by it
orderSetTotal(ords, id, delta) ==
  IF id \in DOMAIN ords
    THEN [ords EXCEPT ![id].total = delta]
    ELSE ords

\* OrderRepositoryMongo.update with {$inc: {total: delta}} (UpdateOrderDetails)
orderIncTotal(ords, id, delta) ==
  IF id \in DOMAIN ords
    THEN [ords EXCEPT ![id].total = @ + delta]
    ELSE ords

\* OrderDetailsRepositoryMongo.findAllByOrderId
findAllByOrderId(lns, orderId) ==
  {l \in DOMAIN lns : lns[l].orderId = orderId}

\* mutant: the delete empties the collection
WithoutAll(coll, id) == <<>>

\* restriction of a collection to the ids other than id (findByIdAndDelete)
Without(coll, id) == [k \in (DOMAIN coll) \ {id} |-> coll[k]]

\* extension of a collection by one document
With(coll, id, doc) == [k \in (DOMAIN coll) \cup {id} |-> IF k = id THEN doc ELSE coll[k]]

Snapshot == [products |-> products, orders |-> orders, lines |-> lines]

NoRoundTrip == [phase |-> "none", id |-> 0, products |-> <<>>]

\* the clients whose requests may be in flight together
Clients == {"a", "b"}

\* no request is in flight
NoneRunning == [arrived |-> FALSE, base |-> <<>>, task |-> [c \in Clients |-> [pc |-> "idle"]]]

Init ==
  /\ products = InitialProducts
  /\ orders = <<>>
  /\ lines = <<>>
  /\ nextOrderId = 1
  /\ nextLineId = 1
  /\ steps = 0
  /\ allOk = TRUE
  /\ last = [op |-> "init", ok |-> TRUE, err |-> "none", id |-> 0, req |-> <<>>,
             pre |-> [products |-> InitialProducts, orders |-> <<>>, lines |-> <<>>]]
  /\ roundTrip = NoRoundTrip
  /\ running = NoneRunning

(* ------------------------------ CreateOrder ---------------------------- *)
\* the request bodies of CreateOrder
DetailRequests == [productId : RequestProductIds, amount : CreateAmounts]
DetailLists == UNION {[1..n -> DetailRequests] : n \in DetailLengths}

\* mutant: a unitPrice sent in the request body is taken for the line
SuppliedUnitPrice(product, detail) ==
  IF "unitPrice" \in DOMAIN detail THEN detail.unitPrice ELSE product.price

\* const verifiedUnitPrice = product.price: the price of the store, not of the request
VerifiedUnitPrice(product, detail) == product.price

\* mutant: the subtotal leaves the price out
VerifiedSubtotalWithoutPrice(verifiedUnitPrice, amount) == amount

\* verifiedSubtotal = verifiedUnitPrice * detail.amount
VerifiedSubtotal(verifiedUnitPrice, amount) == verifiedUnitPrice * amount

\* the for-loop of CreateOrder.execute from line i on: per line, find the product,
\* check the stock, decrement it at once, price the line from the product
RECURSIVE CreateOrderLoop(_, _, _, _, _)
CreateOrderLoop(details, i, prods, orderTotal, verifiedDetails) ==
  IF i > Len(details)
    THEN [err |-> "none", failedAt |-> 0, products |-> prods,
          orderTotal |-> orderTotal, verifiedDetails |-> verifiedDetails]
    ELSE LET detail == details[i] IN
      IF detail.productId \notin DOMAIN prods
        THEN [err |-> "ProductNotFound", failedAt |-> i, products |-> prods,
              orderTotal |-> orderTotal, verifiedDetails |-> verifiedDetails]
      ELSE IF prods[detail.productId].stock < detail.amount
        THEN [err |-> "InsufficientStock", failedAt |-> i, products |-> prods,
              orderTotal |-> orderTotal, verifiedDetails |-> verifiedDetails]
      ELSE
        LET stockChange == detail.amount * (-1)
            verifiedUnitPrice == VerifiedUnitPrice(prods[detail.productId], detail)
            verifiedSubtotal == VerifiedSubtotal(verifiedUnitPrice, detail.amount)
        IN CreateOrderLoop(details, i + 1,
             updateStock(prods, detail.productId, stockChange),
             orderTotal + verifiedSubtotal,
             Append(verifiedDetails,
                    [productId |-> detail.productId, amount |-> detail.amount,
                     unitPrice |-> verifiedUnitPrice, subtotal |-> verifiedSubtotal]))

\* OrderDetailsSchema validation of one document (amount min 1, unitPrice min 0)
ValidOrderDetails(doc) == doc.amount >= 1 /\ doc.unitPrice >= 0

\* OrderDetailsRepositoryMongo.createMany: insertMany validates all, then stores all
createMany(lns, firstId, orderId, verifiedDetails) ==
  [k \in (DOMAIN lns) \cup {firstId + j - 1 : j \in 1..Len(verifiedDetails)} |->
     IF k \in DOMAIN lns THEN lns[k]
     ELSE LET d == verifiedDetails[k - firstId + 1] IN
          [orderId |-> orderId, productId |-> d.productId, amount |-> d.amount,
           unitPrice |-> d.unitPrice, subtotal |-> d.subtotal]]

\* const { details, ...orderHeaderData } = orderData
OrderHeaderData(orderData) == [f \in (DOMAIN orderData) \ {"details"} |-> orderData[f]]

\* orderToSave = { userId, total: orderTotal, status: order.status }
OrderToSave(orderHeaderData, orderTotal) ==
  [total |-> orderTotal, status |-> orderHeaderData.status]

\* mutant: a request that throws gives back the stock its earlier lines took
ProductsRolledBack(prods, r) == IF r.err = "none" THEN r.products ELSE prods

\* the products when the loop ends or throws: every updateStock made so far stays
ProductsAfterLoop(prods, r) == r.products

\* CreateOrder.execute(orderData)
CreateOrderExecute(orderData) ==
  LET details == orderData.details IN
  /\ nextOrderId <= MaxOrders
  /\ nextLineId + Len(details) - 1 <= MaxLines
  /\ LET r == CreateOrderLoop(details, 1, products, 0, <<>>)
         valid == \A j \in 1..Len(r.verifiedDetails) : ValidOrderDetails(r.verifiedDetails[j])
         err == IF r.err # "none" THEN r.err
                ELSE IF ~valid THEN "ValidationError" ELSE "none"
     IN
     /\ products' = ProductsAfterLoop(products, r)
     /\ IF r.err = "none"
          THEN /\ orders' = With(orders, nextOrderId,
                                 OrderToSave(OrderHeaderData(orderData), r.orderTotal))
               /\ nextOrderId' = nextOrderId + 1
          ELSE UNCHANGED <<orders, nextOrderId>>
     /\ IF err = "none"
          THEN /\ lines' = createMany(lines, nextLineId, nextOrderId, r.verifiedDetails)
               /\ nextLineId' = nextLineId + Len(details)
          ELSE UNCHANGED <<lines, nextLineId>>
     /\ last' = [op |-> "CreateOrder", ok |-> (err = "none"), err |-> err,
                 id |-> IF r.err = "none" THEN nextOrderId ELSE r.failedAt,
                 req |-> IF r.err = "none"
                          THEN orderData
                          ELSE [orderData EXCEPT !.details = SubSeq(details, 1, r.failedAt)],
                 pre |-> Snapshot]
     /\ allOk' = (allOk /\ err = "none")
     /\ roundTrip' = NoRoundTrip

\* a request body with the fields the API documents: details and status
CreateOrder(details, status) ==
  CreateOrderExecute([details |-> details, status |-> status])

(* ------------------------------ UpdateOrder ---------------------------- *)
\* the request bodies of UpdateOrder that carry at most the field status
StatusPayloads == {<<>>} \cup {[status |-> b] : b \in BOOLEAN}

\* mutant: every request for status false is taken for a cancellation
isCancellationWhateverOldStatus(oldOrder, updateData) ==
  /\ "status" \in DOMAIN updateData
  /\ updateData.status = FALSE

\* oldOrder.status === true && updateData.status === false
isCancellation(oldOrder, updateData) ==
  /\ oldOrder.status = TRUE
  /\ "status" \in DOMAIN updateData
  /\ updateData.status = FALSE

\* oldOrder.status === false && updateData.status === true
isReactivation(oldOrder, updateData) ==
  /\ oldOrder.status = FALSE
  /\ "status" \in DOMAIN updateData
  /\ updateData.status = TRUE

\* mutant: a reactivation restores stock as a cancellation does
StatusStockChangeAlwaysRestores(cancellation, reactivation) ==
  IF cancellation \/ reactivation THEN 1 ELSE 0

\* the sign UpdateOrder gives to the amounts: +1 restores stock, -1 takes it again
StatusStockChange(cancellation, reactivation) ==
  IF cancellation THEN 1 ELSE IF reactivation THEN -1 ELSE 0

\* mutant: the loop stops after the first line of the order
ApplyStockChangesToFirstLine(prods, lns, ids, stockChange) ==
  IF ids = {} THEN prods
  ELSE LET l == CHOOSE x \in ids : \A y \in ids : x <= y
       IN updateStock(prods, lns[l].productId, lns[l].amount * stockChange)

\* the for-loop of UpdateOrder.execute over the lines of the order
RECURSIVE ApplyStockChanges(_, _, _, _)
ApplyStockChanges(prods, lns, ids, stockChange) ==
  IF ids = {} THEN prods
  ELSE LET l == CHOOSE x \in ids : \A y \in ids : x <= y
           finalStockChange == lns[l].amount * stockChange
       IN ApplyStockChanges(updateStock(prods, lns[l].productId, finalStockChange),
                            lns, ids \ {l}, stockChange)

\* the products after steps 2 and 3 of UpdateOrder.execute on a stored order
UpdateOrderStock(prods, ords, lns, orderId, updateData) ==
  LET oldOrder == ords[orderId]
      cancellation == isCancellation(oldOrder, updateData)
      reactivation == isReactivation(oldOrder, updateData)
  IN IF cancellation \/ reactivation
       THEN ApplyStockChanges(prods, lns, findAllByOrderId(lns, orderId),
                              StatusStockChange(cancellation, reactivation))
       ELSE prods

UpdateOrder(orderId, updateData) ==
  /\ IF orderId \notin DOMAIN orders
       THEN /\ UNCHANGED <<products, orders>>
            /\ roundTrip' = NoRoundTrip
       ELSE /\ products' = UpdateOrderStock(products, orders, lines, orderId, updateData)
            /\ orders' = orderUpdate(orders, orderId, updateData)
            /\ roundTrip' =
                 IF isCancellation(orders[orderId], updateData)
                   THEN [phase |-> "cancelled", id |-> orderId, products |-> products]
                 ELSE IF /\ isReactivation(orders[orderId], updateData)
                         /\ roundTrip.phase = "cancelled"
                         /\ roundTrip.id = orderId
                   THEN [roundTrip EXCEPT !.phase = "reactivated"]
                 ELSE NoRoundTrip
  /\ last' = [op |-> "UpdateOrder", ok |-> (orderId \in DOMAIN orders),
              err |-> IF orderId \in DOMAIN orders THEN "none" ELSE "NotFound",
              id |-> orderId, req |-> updateData, pre |-> Snapshot]
  /\ allOk' = (allOk /\ orderId \in DOMAIN orders)
  /\ UNCHANGED <<lines, nextOrderId, nextLineId>>

(* --------------------------- UpdateOrderDetails ------------------------ *)
\* JavaScript !n for a number n, and the number a boolean turns into under >
JsNot(n) == (n = 0)
JsNumber(b) == IF b THEN 1 ELSE 0

\* mutant: the condition parsed !(quantityDifference > 0)
StockCheckRunsUnlessIncrease(quantityDifference) == ~(quantityDifference > 0)

\* the condition of line 176: !quantityDifference > 0, parsed (!quantityDifference) > 0
StockCheckRuns(quantityDifference) == JsNumber(JsNot(quantityDifference)) > 0

\* mutant: the line is priced again at the product's current price
CurrentPrice(oldDetail, prods) ==
  IF oldDetail.productId \in DOMAIN prods
    THEN prods[oldDetail.productId].price
    ELSE oldDetail.unitPrice

\* const price = oldDetail.unitPrice: the price stored in the line, not the product's
HistoricalPrice(oldDetail, prods) == oldDetail.unitPrice

\* mutant: a line that is not stored is answered as a success
LineNotFoundUnnoticed(prods, ords, lns) ==
  [err |-> "none", products |-> prods, orders |-> ords, lines |-> lns]

\* if(!oldDetail) throw: nothing has been written yet
LineNotFound(prods, ords, lns) ==
  [err |-> "NotFound", products |-> prods, orders |-> ords, lines |-> lns]

\* the outcome of UpdateOrderDetails.execute on the collections
UpdateOrderDetailsResult(prods, ords, lns, detailId, newAmount) ==
  IF detailId \notin DOMAIN lns
    THEN LineNotFound(prods, ords, lns)
  ELSE
    LET oldDetail == lns[detailId]
        oldAmount == oldDetail.amount
        price == HistoricalPrice(oldDetail, prods)
        productId == oldDetail.productId
        orderId == oldDetail.orderId
        quantityDifference == newAmount - oldAmount
        stockChange == quantityDifference * (-1)
        newSubtotal == newAmount * price
        subtotalDifference == newSubtotal - oldDetail.subtotal
    IN IF /\ StockCheckRuns(quantityDifference)
          /\ \/ productId \notin DOMAIN prods
             \/ prods[productId].stock < quantityDifference
         THEN [err |-> "InsufficientStock", products |-> prods, orders |-> ords, lines |-> lns]
         ELSE [err |-> "none",
               products |-> updateStock(prods, productId, stockChange),
               lines |-> orderDetailsUpdate(lns, detailId,
                           [amonut |-> newAmount, subtotal |-> newSubtotal]),
               orders |-> orderIncTotal(ords, orderId, subtotalDifference)]

UpdateOrderDetails(detailId, newAmount) ==
  LET r == UpdateOrderDetailsResult(products, orders, lines, detailId, newAmount) IN
  /\ products' = r.products
  /\ orders' = r.orders
  /\ lines' = r.lines
  /\ last' = [op |-> "UpdateOrderDetails", ok |-> (r.err = "none"), err |-> r.err,
              id |-> detailId, req |-> [amount |-> newAmount], pre |-> Snapshot]
  /\ allOk' = (allOk /\ r.err = "none")
  /\ roundTrip' = NoRoundTrip
  /\ UNCHANGED <<nextOrderId, nextLineId>>

(* --------------------------- DeleteOrderDetails ------------------------ *)
DeleteOrderDetails(id) ==
  /\ lines' = IF id \in DOMAIN lines THEN Without(lines, id) ELSE lines
  /\ last' = [op |-> "DeleteOrderDetails", ok |-> (id \in DOMAIN lines),
              err |-> IF id \in DOMAIN lines THEN "none" ELSE "NotFound",
              id |-> id, req |-> <<>>, pre |-> Snapshot]
  /\ allOk' = (allOk /\ id \in DOMAIN lines)
  /\ roundTrip' = NoRoundTrip
  /\ UNCHANGED <<products, orders, nextOrderId, nextLineId>>

\* one more request is served, from its first store call to its last, alone
Request ==
  /\ steps < MaxSteps
  /\ steps' = steps + 1
  /\ UNCHANGED running

Next ==
  \/ \E details \in DetailLists, status \in BOOLEAN : Request /\ CreateOrder(details, status)
  \/ \E orderId \in OrderIds, updateData \in StatusPayloads : Request /\ UpdateOrder(orderId, updateData)
  \/ \E detailId \in LineIds, newAmount \in NewAmounts : Request /\ UpdateOrderDetails(detailId, newAmount)
  \/ \E id \in LineIds : Request /\ DeleteOrderDetails(id)

Spec == Init /\ [][Next]_vars

(* --------------------------- product catalogue ------------------------- *)
\* the request bodies of UpdateProduct: price and stock (name and category valid)
ProductPrices == {0, 7}
ProductStocks == {1, 4}
ProductData == [price : ProductPrices, stock : ProductStocks]

\* the Product constructor: !price || price < 0, stock == null || stock < 0
ValidProduct(productData) ==
  /\ ~(JsNot(productData.price) \/ productData.price < 0)
  /\ ~(productData.stock < 0)

\* ProductRepositoryMongo.update: findByIdAndUpdate(id, product), no validators
productUpdate(prods, id, product) ==
  IF id \in DOMAIN prods
    THEN [prods EXCEPT ![id] = [price |-> product.price, stock |-> product.stock]]
    ELSE prods

UpdateProduct(id, productData) ==
  LET err == IF ~ValidProduct(productData) THEN "InvalidProduct"
             ELSE IF id \notin DOMAIN products THEN "NotFound" ELSE "none"
  IN
  /\ products' = IF err = "none" THEN productUpdate(products, id, productData) ELSE products
  /\ last' = [op |-> "UpdateProduct", ok |-> (err = "none"), err |-> err, id |-> 0,
              req |-> [id |-> id, data |-> productData], pre |-> Snapshot]
  /\ allOk' = (allOk /\ err = "none")
  /\ roundTrip' = NoRoundTrip
  /\ UNCHANGED <<orders, lines, nextOrderId, nextLineId>>

DeleteProduct(id) ==
  /\ products' = IF id \in DOMAIN products THEN Without(products, id) ELSE products
  /\ last' = [op |-> "DeleteProduct", ok |-> (id \in DOMAIN products),
              err |-> IF id \in DOMAIN products THEN "none" ELSE "NotFound",
              id |-> 0, req |-> [id |-> id], pre |-> Snapshot]
  /\ allOk' = (allOk /\ id \in DOMAIN products)
  /\ roundTrip' = NoRoundTrip
  /\ UNCHANGED <<orders, lines, nextOrderId, nextLineId>>

\* the order requests together with the requests of the product catalogue
NextCatalog ==
  \/ Next
  \/ \E id \in RequestProductIds, productData \in ProductData :
       Request /\ UpdateProduct(id, productData)
  \/ \E id \in RequestProductIds : Request /\ DeleteProduct(id)

SpecCatalog == Init /\ [][NextCatalog]_vars

(* ------------------- request bodies that carry prices ------------------ *)
\* values a client may send as unitPrice, subtotal or total
SuppliedPrices == {1}
PricedDetailRequests ==
  [productId : RequestProductIds, amount : CreateAmounts,
   unitPrice : SuppliedPrices, subtotal : SuppliedPrices]
PricedDetailLists == UNION {[1..n -> PricedDetailRequests] : n \in DetailLengths}
PricedOrderData == [details : PricedDetailLists, status : BOOLEAN, total : SuppliedPrices]

\* the order requests together with CreateOrder requests that carry prices
NextPriced ==
  \/ Next
  \/ \E orderData \in PricedOrderData : Request /\ CreateOrderExecute(orderData)

SpecPriced == Init /\ [][NextPriced]_vars

(* ------------------ update bodies that carry a total ------------------- *)
\* values a client may send as total in the body of PUT /orders/:id
PayloadTotals == {7}
TotalPayloads ==
  {[total |-> t] : t \in PayloadTotals}
    \cup {[status |-> b, total |-> t] : b \in BOOLEAN, t \in PayloadTotals}

\* the order requests together with UpdateOrder requests whose body carries a total
NextPayload ==
  \/ Next
  \/ \E orderId \in OrderIds, updateData \in TotalPayloads :
       Request /\ UpdateOrder(orderId, updateData)

SpecPayload == Init /\ [][NextPayload]_vars

(* ----------------------- requests in flight together ------------------- *)
\* Node.js runs one use case until its next await; every await of a use case is a
\* store call, so a step of a request is one store call followed by the code up to
\* the next store call.  Two requests interleave at these steps.

\* the requests two clients send together
ArrivingDetailLists == [1..1 -> DetailRequests]
ArrivingRequests ==
  {[op |-> "CreateOrder", orderData |-> [details |-> d, status |-> TRUE]] :
     d \in ArrivingDetailLists}
  \cup {[op |-> "UpdateOrder", orderId |-> o, updateData |-> u] :
          o \in OrderIds, u \in StatusPayloads}
  \cup {[op |-> "UpdateOrderDetails", detailId |-> l, newAmount |-> n] :
          l \in LineIds, n \in NewAmounts}

\* the stock changes a request has sent to updateStock so far, per product
NothingIssued == [p \in ProductIds |-> 0]
Issue(issued, productId, change) ==
  IF productId \in DOMAIN issued THEN [issued EXCEPT ![productId] = @ + change] ELSE issued

\* a request at its first store call
FirstStep(req) ==
  IF req.op = "CreateOrder"
    THEN [op |-> "CreateOrder", pc |-> IF req.orderData.details = <<>> THEN "create" ELSE "findProduct",
          orderData |-> req.orderData, i |-> 1, product |-> <<>>, orderTotal |-> 0,
          verifiedDetails |-> <<>>, orderId |-> 0, err |-> "none", issued |-> NothingIssued]
  ELSE IF req.op = "UpdateOrder"
    THEN [op |-> "UpdateOrder", pc |-> "findOrder", orderId |-> req.orderId,
          updateData |-> req.updateData, oldOrder |-> <<>>, details |-> <<>>, j |-> 1,
          stockChange |-> 0, err |-> "none", issued |-> NothingIssued]
  ELSE [op |-> "UpdateOrderDetails", pc |-> "findDetail", detailId |-> req.detailId,
        newAmount |-> req.newAmount, oldDetail |-> <<>>, subtotalDifference |-> 0,
        err |-> "none", issued |-> NothingIssued]

\* two requests arrive together at a server that serves no other request
Arrive(reqA, reqB) ==
  /\ ~running.arrived
  /\ running' = [arrived |-> TRUE, base |-> Snapshot,
                 task |-> [c \in Clients |-> IF c = "a" THEN FirstStep(reqA) ELSE FirstStep(reqB)]]
  /\ UNCHANGED <<products, orders, lines, nextOrderId, nextLineId, steps, allOk, last, roundTrip>>

\* the client c is at the step pc of the use case op
At(c, op, pc) ==
  /\ running.arrived
  /\ running.task[c].op = op
  /\ running.task[c].pc = pc

\* the request of client c goes on as task
GoOn(c, task) == running' = [running EXCEPT !.task[c] = task]
Frame == UNCHANGED <<steps, allOk, last, roundTrip>>

(* CreateOrder.execute, step by step *)
\* const product = await productRepository.findById(detail.productId), and the checks
CreateOrderFindProduct(c) ==
  /\ At(c, "CreateOrder", "findProduct")
  /\ LET t == running.task[c]
         detail == t.orderData.details[t.i]
     IN IF detail.productId \notin DOMAIN products
          THEN GoOn(c, [t EXCEPT !.pc = "failed", !.err = "ProductNotFound"])
        ELSE IF products[detail.productId].stock < detail.amount
          THEN GoOn(c, [t EXCEPT !.pc = "failed", !.err = "InsufficientStock",
                                 !.product = products[detail.productId]])
        ELSE GoOn(c, [t EXCEPT !.pc = "updateStock", !.product = products[detail.productId]])
  /\ Frame
  /\ UNCHANGED <<products, orders, lines, nextOrderId, nextLineId>>

\* mutant: the stock is written as the stock read by findById minus the amount
CreateOrderStockFromRead(prods, t) ==
  LET detail == t.orderData.details[t.i]
  IN IF detail.productId \in DOMAIN prods
       THEN [prods EXCEPT ![detail.productId].stock = t.product.stock - detail.amount]
       ELSE prods

\* await productRepository.updateStock(detail.productId, detail.amount * -1)
CreateOrderStock(prods, t) ==
  LET detail == t.orderData.details[t.i]
  IN updateStock(prods, detail.productId, detail.amount * (-1))

CreateOrderUpdateStock(c) ==
  /\ At(c, "CreateOrder", "updateStock")
  /\ LET t == running.task[c]
         detail == t.orderData.details[t.i]
         verifiedUnitPrice == VerifiedUnitPrice(t.product, detail)
         verifiedSubtotal == VerifiedSubtotal(verifiedUnitPrice, detail.amount)
     IN /\ products' = CreateOrderStock(products, t)
        /\ GoOn(c, [t EXCEPT
             !.pc = IF t.i + 1 > Len(t.orderData.details) THEN "create" ELSE "findProduct",
             !.i = t.i + 1,
             !.orderTotal = t.orderTotal + verifiedSubtotal,
             !.verifiedDetails =
                Append(t.verifiedDetails,
                       [productId |-> detail.productId, amount |-> detail.amount,
                        unitPrice |-> verifiedUnitPrice, subtotal |-> verifiedSubtotal]),
             !.issued = Issue(t.issued, detail.productId, detail.amount * (-1))])
  /\ Frame
  /\ UNCHANGED <<orders, lines, nextOrderId, nextLineId>>

\* const newOrder = await orderRepository.create(orderToSave)
CreateOrderCreate(c) ==
  /\ At(c, "CreateOrder", "create")
  /\ LET t == running.task[c]
     IN /\ orders' = With(orders, nextOrderId,
                          OrderToSave(OrderHeaderData(t.orderData), t.orderTotal))
        /\ nextOrderId' = nextOrderId + 1
        /\ GoOn(c, [t EXCEPT !.pc = "createMany", !.orderId = nextOrderId])
  /\ Frame
  /\ UNCHANGED <<products, lines, nextLineId>>

\* const newDetails = await orderDetailsRepository.createMany(detailsToSave)
CreateOrderCreateMany(c) ==
  /\ At(c, "CreateOrder", "createMany")
  /\ LET t == running.task[c]
         valid == \A j \in 1..Len(t.verifiedDetails) : ValidOrderDetails(t.verifiedDetails[j])
     IN IF valid
          THEN /\ lines' = createMany(lines, nextLineId, t.orderId, t.verifiedDetails)
               /\ nextLineId' = nextLineId + Len(t.verifiedDetails)
               /\ GoOn(c, [t EXCEPT !.pc = "done"])
          ELSE /\ UNCHANGED <<lines, nextLineId>>
               /\ GoOn(c, [t EXCEPT !.pc = "failed", !.err = "ValidationError"])
  /\ Frame
  /\ UNCHANGED <<products, orders, nextOrderId>>

(* UpdateOrder.execute, step by step *)
\* const oldOrder = await orderRepository.findById(orderId), and the two flags
UpdateOrderFindOrder(c) ==
  /\ At(c, "UpdateOrder", "findOrder")
  /\ LET t == running.task[c]
     IN IF t.orderId \notin DOMAIN orders
          THEN GoOn(c, [t EXCEPT !.pc = "failed", !.err = "NotFound"])
        ELSE LET oldOrder == orders[t.orderId]
                 cancellation == isCancellation(oldOrder, t.updateData)
                 reactivation == isReactivation(oldOrder, t.updateData)
             IN GoOn(c, [t EXCEPT
                  !.pc = IF cancellation \/ reactivation THEN "findDetails" ELSE "update",
                  !.oldOrder = oldOrder,
                  !.stockChange = StatusStockChange(cancellation, reactivation)])
  /\ Frame
  /\ UNCHANGED <<products, orders, lines, nextOrderId, nextLineId>>

\* the documents of the collection lns with the ids ids, in the order of their ids
RECURSIVE Documents(_, _)
Documents(lns, ids) ==
  IF ids = {} THEN <<>>
  ELSE LET l == CHOOSE x \in ids : \A y \in ids : x <= y
       IN <<lns[l]>> \o Documents(lns, ids \ {l})

\* const details = await orderDetailsRepository.findAllByOrderId(orderId)
UpdateOrderFindDetails(c) ==
  /\ At(c, "UpdateOrder", "findDetails")
  /\ LET t == running.task[c]
         details == Documents(lines, findAllByOrderId(lines, t.orderId))
     IN GoOn(c, [t EXCEPT !.pc = IF Len(details) > 0 THEN "updateStock" ELSE "update",
                          !.details = details, !.j = 1])
  /\ Frame
  /\ UNCHANGED <<products, orders, lines, nextOrderId, nextLineId>>

\* await productRepository.updateStock(detail.productId, detail.amount * stockChange)
UpdateOrderUpdateStock(c) ==
  /\ At(c, "UpdateOrder", "updateStock")
  /\ LET t == running.task[c]
         detail == t.details[t.j]
         finalStockChange == detail.amount * t.stockChange
     IN /\ products' = updateStock(products, detail.productId, finalStockChange)
        /\ GoOn(c, [t EXCEPT
             !.pc = IF t.j + 1 > Len(t.details) THEN "update" ELSE "updateStock",
             !.j = t.j + 1,
             !.issued = Issue(t.issued, detail.productId, finalStockChange)])
  /\ Frame
  /\ UNCHANGED <<orders, lines, nextOrderId, nextLineId>>

\* const updatedOrder = await orderRepository.update(orderId, updateData)
UpdateOrderUpdate(c) ==
  /\ At(c, "UpdateOrder", "update")
  /\ LET t == running.task[c]
     IN /\ orders' = orderUpdate(orders, t.orderId, t.updateData)
        /\ GoOn(c, [t EXCEPT !.pc = "done"])
  /\ Frame
  /\ UNCHANGED <<products, lines, nextOrderId, nextLineId>>

(* UpdateOrderDetails.execute, step by step *)
\* const oldDetail = await orderDetailsRepository.findById(detailId), and the differences
UpdateOrderDetailsFindDetail(c) ==
  /\ At(c, "UpdateOrderDetails", "findDetail")
  /\ LET t == running.task[c]
     IN IF t.detailId \notin DOMAIN lines
          THEN GoOn(c, [t EXCEPT !.pc = "failed", !.err = "NotFound"])
        ELSE LET oldDetail == lines[t.detailId]
                 quantityDifference == t.newAmount - oldDetail.amount
             IN GoOn(c, [t EXCEPT
                  !.pc = IF StockCheckRuns(quantityDifference) THEN "findProduct"
                                                               ELSE "updateStock",
                  !.oldDetail = oldDetail])
  /\ Frame
  /\ UNCHANGED <<products, orders, lines, nextOrderId, nextLineId>>

\* const product = await productRepository.findById(productId), and the check
UpdateOrderDetailsFindProduct(c) ==
  /\ At(c, "UpdateOrderDetails", "findProduct")
  /\ LET t == running.task[c]
         productId == t.oldDetail.productId
         quantityDifference == t.newAmount - t.oldDetail.amount
     IN IF \/ productId \notin DOMAIN products
           \/ products[productId].stock < quantityDifference
          THEN GoOn(c, [t EXCEPT !.pc = "failed", !.err = "InsufficientStock"])
          ELSE GoOn(c, [t EXCEPT !.pc = "updateStock"])
  /\ Frame
  /\ UNCHANGED <<products, orders, lines, nextOrderId, nextLineId>>

\* await productRepository.updateStock(productId, stockChange), and the new subtotal
UpdateOrderDetailsUpdateStock(c) ==
  /\ At(c, "UpdateOrderDetails", "updateStock")
  /\ LET t == running.task[c]
         quantityDifference == t.newAmount - t.oldDetail.amount
         stockChange == quantityDifference * (-1)
         newSubtotal == t.newAmount * HistoricalPrice(t.oldDetail, products)
     IN /\ products' = updateStock(products, t.oldDetail.productId, stockChange)
        /\ GoOn(c, [t EXCEPT
             !.pc = "updateDetail",
             !.subtotalDifference = newSubtotal - t.oldDetail.subtotal,
             !.issued = Issue(t.issued, t.oldDetail.productId, stockChange)])
  /\ Frame
  /\ UNCHANGED <<orders, lines, nextOrderId, nextLineId>>

\* await orderDetailsRepository.update(detailId, {amonut: newAmount, subtotal: newSubtotal})
UpdateOrderDetailsUpdateDetail(c) ==
  /\ At(c, "UpdateOrderDetails", "updateDetail")
  /\ LET t == running.task[c]
         newSubtotal == t.newAmount * HistoricalPrice(t.oldDetail, products)
     IN /\ lines' = orderDetailsUpdate(lines, t.detailId,
                                       [amonut |-> t.newAmount, subtotal |-> newSubtotal])
        /\ GoOn(c, [t EXCEPT !.pc = "updateOrder"])
  /\ Frame
  /\ UNCHANGED <<products, orders, nextOrderId, nextLineId>>

\* mutant: the total is written as the total at the request's arrival plus the difference
LineTotalFromRead(ords, t) ==
  IF t.oldDetail.orderId \in (DOMAIN ords) \cap (DOMAIN running.base.orders)
    THEN [ords EXCEPT ![t.oldDetail.orderId].total =
            running.base.orders[t.oldDetail.orderId].total + t.subtotalDifference]
    ELSE ords

\* await orderRepository.update(orderId, {$inc: {total: subtotalDifference}})
LineTotal(ords, t) == orderIncTotal(ords, t.oldDetail.orderId, t.subtotalDifference)

UpdateOrderDetailsUpdateOrder(c) ==
  /\ At(c, "UpdateOrderDetails", "updateOrder")
  /\ LET t == running.task[c]
     IN /\ orders' = LineTotal(orders, t)
        /\ GoOn(c, [t EXCEPT !.pc = "done"])
  /\ Frame
  /\ UNCHANGED <<products, lines, nextOrderId, nextLineId>>

\* one order is created, then two requests arrive together and run step by step
NextTogether ==
  \/ \E details \in DetailLists :
       ~running.arrived /\ steps = 0 /\ Request /\ CreateOrder(details, TRUE)
  \/ \E reqA \in ArrivingRequests, reqB \in ArrivingRequests : Arrive(reqA, reqB)
  \/ \E c \in Clients : CreateOrderFindProduct(c)
  \/ \E c \in Clients : CreateOrderUpdateStock(c)
  \/ \E c \in Clients : CreateOrderCreate(c)
  \/ \E c \in Clients : CreateOrderCreateMany(c)
  \/ \E c \in Clients : UpdateOrderFindOrder(c)
  \/ \E c \in Clients : UpdateOrderFindDetails(c)
  \/ \E c \in Clients : UpdateOrderUpdateStock(c)
  \/ \E c \in Clients : UpdateOrderUpdate(c)
  \/ \E c \in Clients : UpdateOrderDetailsFindDetail(c)
  \/ \E c \in Clients : UpdateOrderDetailsFindProduct(c)
  \/ \E c \in Clients : UpdateOrderDetailsUpdateStock(c)
  \/ \E c \in Clients : UpdateOrderDetailsUpdateDetail(c)
  \/ \E c \in Clients : UpdateOrderDetailsUpdateOrder(c)

SpecTogether == Init /\ [][NextTogether]_vars

(* ------------------------- derived quantities -------------------------- *)
\* the sum of the subtotals of the lines ids of the collection lns
RECURSIVE SumSubtotals(_, _)
SumSubtotals(lns, ids) ==
  IF ids = {} THEN 0
  ELSE LET l == CHOOSE x \in ids : TRUE
       IN lns[l].subtotal + SumSubtotals(lns, ids \ {l})

\* the sum of the amounts of the lines ids of the collection lns
RECURSIVE SumAmounts(_, _)
SumAmounts(lns, ids) ==
  IF ids = {} THEN 0
  ELSE LET l == CHOOSE x \in ids : TRUE
       IN lns[l].amount + SumAmounts(lns, ids \ {l})

\* the lines of product p that belong to a stored order whose status is true
HeldLines(p) ==
  {l \in DOMAIN lines :
     /\ lines[l].productId = p
     /\ lines[l].orderId \in DOMAIN orders
     /\ orders[lines[l].orderId].status = TRUE}

\* no order line has been deleted: every id given out is still stored
NoLineDeleted == DOMAIN lines = 1..(nextLineId - 1)

(* ------------------------------- C1 ------------------------------------ *)
\* C1: after any sequence of successful operations (order creation, status update,
\* line adjustment, line deletion) every order's total equals the sum of the
\* subtotals of the lines that currently belong to it.
TotalIsSumOfSubtotals ==
  allOk => \A o \in DOMAIN orders :
             orders[o].total = SumSubtotals(lines, findAllByOrderId(lines, o))

(* ------------------------------- C2 ------------------------------------ *)
\* C2: after any successful mutation (creation, any number of adjustments) every
\* stored line's subtotal equals its stored amount times its stored unitPrice.
SubtotalIsAmountTimesUnitPrice ==
  allOk => \A l \in DOMAIN lines :
             lines[l].subtotal = lines[l].amount * lines[l].unitPrice

(* ------------------------------- C3 ------------------------------------ *)
\* C3: after successful creations, status updates and line adjustments, for every
\* product p, p.stock plus the amounts of p's lines in orders whose status is true
\* equals p's initial stock.
StockPlusHeldIsInitialStock ==
  (allOk /\ NoLineDeleted) =>
    \A p \in DOMAIN products :
      products[p].stock + SumAmounts(lines, HeldLines(p)) = InitialProducts[p].stock

(* ------------------------------- C4 ------------------------------------ *)
\* C4: in every reachable state every product's stock is greater than or equal to 0.
StockNeverNegative == \A p \in DOMAIN products : products[p].stock >= 0

(* ------------------------------- C5 ------------------------------------ *)
\* the amount a CreateOrder request asks of product p, all its lines together
RECURSIVE RequestedAmount(_, _)
RequestedAmount(details, p) ==
  IF details = <<>> THEN 0
  ELSE (IF Head(details).productId = p THEN Head(details).amount ELSE 0)
         + RequestedAmount(Tail(details), p)

\* the sum of price * amount over the lines of a request, at the prices of prods
RECURSIVE RequestedTotal(_, _)
RequestedTotal(details, prods) ==
  IF details = <<>> THEN 0
  ELSE prods[Head(details).productId].price * Head(details).amount
         + RequestedTotal(Tail(details), prods)

CreateOrderSucceeded == last.op = "CreateOrder" /\ last.ok

\* C5: a successful CreateOrder decreases each product's stock by the sum of the
\* amounts requested for it, persists one line per request line with
\* subtotal = product.price * amount, and persists the order with the sum of those
\* subtotals as total.
CreateOrderEffect ==
  CreateOrderSucceeded =>
    LET details == last.req.details
        first == nextLineId - Len(details)
    IN /\ \A p \in DOMAIN last.pre.products :
            products[p].stock = last.pre.products[p].stock - RequestedAmount(details, p)
       /\ DOMAIN lines = DOMAIN last.pre.lines \cup {first + j - 1 : j \in 1..Len(details)}
       /\ \A l \in DOMAIN last.pre.lines : lines[l] = last.pre.lines[l]
       /\ \A j \in 1..Len(details) :
            /\ first + j - 1 \notin DOMAIN last.pre.lines
            /\ lines[first + j - 1] =
                 [orderId |-> last.id, productId |-> details[j].productId,
                  amount |-> details[j].amount,
                  unitPrice |-> last.pre.products[details[j].productId].price,
                  subtotal |-> last.pre.products[details[j].productId].price
                                 * details[j].amount]
       /\ last.id \notin DOMAIN last.pre.orders
       /\ orders[last.id] = [total |-> RequestedTotal(details, last.pre.products),
                             status |-> last.req.status]

\* the example of the claim: stock 5, one line of 3 at price 10
CreateOrderExample ==
  /\ CreateOrderSucceeded
  /\ last.req.details = <<[productId |-> "p1", amount |-> 3]>>
  /\ last.pre.products["p1"] = [price |-> 10, stock |-> 5]
  /\ products["p1"].stock = 2
  /\ lines[nextLineId - 1].subtotal = 30
  /\ orders[last.id].total = 30

(* ------------------------------- C6 ------------------------------------ *)
CreateOrderRejected ==
  last.op = "CreateOrder" /\ last.err \in {"ProductNotFound", "InsufficientStock"}

\* C6: when CreateOrder fails because a line's product is absent or the line asks
\* more than the product's stock, no order and no line is persisted and the stock
\* of the product the failing line names is the same as before the request.
RejectedCreateOrderChangesNothing ==
  CreateOrderRejected =>
    LET failing == last.req.details[last.id].productId
    IN /\ orders = last.pre.orders
       /\ lines = last.pre.lines
       /\ failing \in DOMAIN last.pre.products =>
            products[failing].stock = last.pre.products[failing].stock

(* ------------------------------- C7 ------------------------------------ *)
\* C7: UpdateOrder with status=false on an order whose status is true, followed at
\* once by UpdateOrder with status=true on it, leaves every product's stock equal
\* to its value before the cancellation.
CancelReactivateRestoresStock ==
  roundTrip.phase = "reactivated" =>
    \A p \in DOMAIN products : products[p].stock = roundTrip.products[p].stock

\* a round trip of an order that has lines, so that the stock moved and came back
RoundTripDone ==
  /\ roundTrip.phase = "reactivated"
  /\ findAllByOrderId(lines, roundTrip.id) # {}
  /\ products # last.pre.products

(* ------------------------------- C8 ------------------------------------ *)
\* the last request was UpdateOrderDetails on a stored line
AdjustedStoredLine == last.op = "UpdateOrderDetails" /\ last.id \in DOMAIN last.pre.lines

\* an accepted adjustment from amount 2 to amount 5 of a line whose unitPrice is 10
AdjustedTwoToFive ==
  /\ AdjustedStoredLine
  /\ last.ok
  /\ last.pre.lines[last.id].amount = 2
  /\ last.pre.lines[last.id].unitPrice = 10
  /\ last.req.amount = 5

\* C8 as stated: adjusting a line's amount from 2 to 5 at unitPrice 10 decreases the
\* product's stock by 3, sets the subtotal to 50 and increases the order's total by 20.
TwoToFiveAddsTwenty ==
  AdjustedTwoToFive =>
    LET old == last.pre.lines[last.id]
    IN /\ old.productId \in DOMAIN last.pre.products =>
            products[old.productId].stock = last.pre.products[old.productId].stock - 3
       /\ lines[last.id].subtotal = 50
       /\ old.orderId \in DOMAIN last.pre.orders =>
            orders[old.orderId].total = last.pre.orders[old.orderId].total + 20

\* C8 amended: adjusting a line's amount from 2 to 5 at unitPrice 10 decreases the
\* product's stock by 3, sets the subtotal to 50 and increases the order's total by
\* 50 minus the line's stored subtotal, which is 30 for a line whose subtotal is 20.
TwoToFiveAddsFiftyMinusSubtotal ==
  AdjustedTwoToFive =>
    LET old == last.pre.lines[last.id]
    IN /\ old.productId \in DOMAIN last.pre.products =>
            products[old.productId].stock = last.pre.products[old.productId].stock - 3
       /\ lines[last.id].subtotal = 50
       /\ old.orderId \in DOMAIN last.pre.orders =>
            /\ orders[old.orderId].total =
                 last.pre.orders[old.orderId].total + 50 - old.subtotal
            /\ old.subtotal = 20 =>
                 orders[old.orderId].total = last.pre.orders[old.orderId].total + 30

\* the adjustment of a freshly created line: subtotal 20 before, total 30 higher after
TwoToFiveOnFreshLine ==
  /\ AdjustedTwoToFive
  /\ last.pre.lines[last.id].subtotal = 20
  /\ lines[last.id].subtotal = 50
  /\ products[last.pre.lines[last.id].productId].stock
       = last.pre.products[last.pre.lines[last.id].productId].stock - 3
  /\ orders[last.pre.lines[last.id].orderId].total
       = last.pre.orders[last.pre.lines[last.id].orderId].total + 30

(* ------------------------------- C9 ------------------------------------ *)
\* newAmount - oldAmount of the last UpdateOrderDetails request
LastQuantityDelta == last.req.amount - last.pre.lines[last.id].amount

\* the stock, before the request, of the product of the line the request names
LastProductStock == last.pre.products[last.pre.lines[last.id].productId].stock

\* an increase that asks more than the product's stock
IncreaseBeyondStock ==
  /\ AdjustedStoredLine
  /\ LastQuantityDelta > 0
  /\ last.pre.lines[last.id].productId \in DOMAIN last.pre.products
  /\ LastProductStock < LastQuantityDelta

\* C9: an UpdateOrderDetails request that increases the amount by quantityDelta > 0
\* fails with insufficient stock whenever the product's stock is less than
\* quantityDelta, and then the stock, the line and the order total are unchanged.
IncreaseBeyondStockIsRejected ==
  IncreaseBeyondStock =>
    /\ ~last.ok
    /\ last.err = "InsufficientStock"
    /\ products = last.pre.products
    /\ lines = last.pre.lines
    /\ orders = last.pre.orders

(* ------------------------------- C10 ----------------------------------- *)
\* a request that lowers the amount of a stored line
DecreaseRequested == AdjustedStoredLine /\ LastQuantityDelta < 0

\* C10: an UpdateOrderDetails request whose new amount is lower than the old amount
\* always succeeds, whatever the product's stock, and returns
\* oldAmount - newAmount units to the product's stock.
DecreaseAlwaysSucceeds ==
  DecreaseRequested =>
    /\ last.ok
    /\ last.pre.lines[last.id].productId \in DOMAIN last.pre.products =>
         products[last.pre.lines[last.id].productId].stock
           = LastProductStock + last.pre.lines[last.id].amount - last.req.amount

\* a decrease accepted while the product had no stock left
DecreaseAtZeroStock ==
  /\ DecreaseRequested
  /\ LastProductStock = 0
  /\ last.ok
  /\ products[last.pre.lines[last.id].productId].stock = 0 - LastQuantityDelta

(* ------------------------------- C11 ----------------------------------- *)
\* a request whose new amount is the stored amount of a stored line
SameAmountRequested == AdjustedStoredLine /\ LastQuantityDelta = 0

\* C11: an UpdateOrderDetails request whose new amount equals the line's current
\* amount succeeds and changes nothing (stock, line, order total), whatever the
\* product's stock and whether the product is stored or deleted.
SameAmountChangesNothing ==
  SameAmountRequested =>
    /\ last.ok
    /\ products = last.pre.products
    /\ lines = last.pre.lines
    /\ orders = last.pre.orders

(* ------------------------------- C12 ----------------------------------- *)
\* C12: a line's unitPrice never changes after the line is created: whatever
\* adjustments and product price changes are made, every stored line keeps the
\* unitPrice it had (for a new line, the product's price when the order was
\* created), and every recomputed subtotal is the new amount times that unitPrice.
UnitPriceIsCreationPrice ==
  /\ \A l \in DOMAIN lines \cap DOMAIN last.pre.lines :
       lines[l].unitPrice = last.pre.lines[l].unitPrice
  /\ \A l \in DOMAIN lines \ DOMAIN last.pre.lines :
       lines[l].unitPrice = last.pre.products[lines[l].productId].price
  /\ (AdjustedStoredLine /\ last.ok) =>
       lines[last.id].subtotal = last.req.amount * last.pre.lines[last.id].unitPrice

\* an adjustment of a line whose product's price has changed since the creation
AdjustedAfterPriceChange ==
  /\ AdjustedStoredLine
  /\ last.ok
  /\ last.req.amount > 0
  /\ last.pre.lines[last.id].productId \in DOMAIN last.pre.products
  /\ last.pre.products[last.pre.lines[last.id].productId].price
       # last.pre.lines[last.id].unitPrice
  /\ lines[last.id].unitPrice = last.pre.lines[last.id].unitPrice
  /\ lines[last.id].subtotal = last.req.amount * lines[last.id].unitPrice

(* ------------------------------- C13 ----------------------------------- *)
\* a request body reduced to what the API documents: productId and amount per line
WithoutPrices(details) ==
  [j \in 1..Len(details) |->
     [productId |-> details[j].productId, amount |-> details[j].amount]]

\* C13: every line CreateOrder creates has the product's store price as unitPrice,
\* price * amount as subtotal, and the order has their sum as total; a unitPrice,
\* subtotal or total sent in the request body changes nothing of what is persisted:
\* the lines and the order are those the same request without them gives.
SuppliedPricesAreIgnored ==
  CreateOrderSucceeded =>
    LET details == last.req.details
        first == nextLineId - Len(details)
        plain == CreateOrderLoop(WithoutPrices(details), 1, last.pre.products, 0, <<>>)
    IN /\ \A j \in 1..Len(details) :
            LET price == last.pre.products[details[j].productId].price
            IN /\ lines[first + j - 1].unitPrice = price
               /\ lines[first + j - 1].subtotal = price * details[j].amount
       /\ orders[last.id].total = RequestedTotal(details, last.pre.products)
       /\ lines = createMany(last.pre.lines, first, last.id, plain.verifiedDetails)
       /\ orders = With(last.pre.orders, last.id,
                        [total |-> plain.orderTotal, status |-> last.req.status])
       /\ products = plain.products

\* an accepted request whose body carried a unitPrice, a subtotal and a total that
\* differ from the persisted ones
PricedRequestAccepted ==
  /\ CreateOrderSucceeded
  /\ "total" \in DOMAIN last.req
  /\ last.req.details # <<>>
  /\ last.req.total # orders[last.id].total
  /\ last.req.details[1].unitPrice # lines[nextLineId - Len(last.req.details)].unitPrice
  /\ last.req.details[1].subtotal # lines[nextLineId - Len(last.req.details)].subtotal

(* ------------------------------- C14 ----------------------------------- *)
\* the use cases that change stock through updateStock(productId, delta) only
RelativeStockRequests == {"CreateOrder", "UpdateOrder", "UpdateOrderDetails"}

\* C14: after a product is created its stock changes only through the relative
\* adjustment updateStock(productId, delta): no request writes an absolute stock
\* value over the stock of a stored product.
StockMovesOnlyByUpdateStock ==
  \A p \in DOMAIN products \cap DOMAIN last.pre.products :
    products[p].stock # last.pre.products[p].stock => last.op \in RelativeStockRequests

(* ------------------------------- C17 ----------------------------------- *)
\* the last request was an UpdateOrder that changed the status of a stored order
StatusChanged ==
  /\ last.op = "UpdateOrder"
  /\ last.ok
  /\ "status" \in DOMAIN last.req
  /\ last.req.status # last.pre.orders[last.id].status

\* the lines of product p the order of the last request had
LastOrderLines(p) ==
  {l \in findAllByOrderId(last.pre.lines, last.id) : last.pre.lines[l].productId = p}

\* C17: an UpdateOrder from status true to false adds, for every line of the order,
\* the line's stored amount to its product's stock; one from false to true subtracts
\* it; every line of the order is processed and the new status is persisted.
StatusChangeMovesEveryLine ==
  StatusChanged =>
    /\ DOMAIN products = DOMAIN last.pre.products
    /\ \A p \in DOMAIN products :
         products[p].stock =
           last.pre.products[p].stock
             + (IF last.req.status THEN -1 ELSE 1)
                 * SumAmounts(last.pre.lines, LastOrderLines(p))
    /\ orders[last.id].status = last.req.status

\* a cancellation of an order of two lines: both amounts are back in stock
TwoLinesCancelled ==
  /\ StatusChanged
  /\ last.req.status = FALSE
  /\ Cardinality(findAllByOrderId(last.pre.lines, last.id)) = 2
  /\ \A l \in findAllByOrderId(last.pre.lines, last.id) :
       products[last.pre.lines[l].productId].stock
         > last.pre.products[last.pre.lines[l].productId].stock
  /\ orders[last.id].status = FALSE

(* ------------------------------- C18 ----------------------------------- *)
\* C18: a successful UpdateOrderDetails from oldAmount to newAmount on a line of
\* unit price u changes the product's stock by exactly oldAmount - newAmount and
\* the order's total by exactly newAmount * u minus the line's previous subtotal.
LineAdjustmentEffect ==
  (AdjustedStoredLine /\ last.ok) =>
    LET old == last.pre.lines[last.id]
    IN /\ old.productId \in DOMAIN last.pre.products =>
            products[old.productId].stock
              = last.pre.products[old.productId].stock + old.amount - last.req.amount
       /\ old.orderId \in DOMAIN last.pre.orders =>
            orders[old.orderId].total
              = last.pre.orders[old.orderId].total
                  + last.req.amount * old.unitPrice - old.subtotal

\* an accepted adjustment that moved both the stock and the total
StockAndTotalAdjusted ==
  /\ AdjustedStoredLine
  /\ last.ok
  /\ LastQuantityDelta # 0
  /\ products[last.pre.lines[last.id].productId].stock
       = LastProductStock - LastQuantityDelta
  /\ orders[last.pre.lines[last.id].orderId].total
       # last.pre.orders[last.pre.lines[last.id].orderId].total
  /\ orders[last.pre.lines[last.id].orderId].total
       = last.pre.orders[last.pre.lines[last.id].orderId].total
           + last.req.amount * last.pre.lines[last.id].unitPrice
           - last.pre.lines[last.id].subtotal

(* ------------------------------- C19 ----------------------------------- *)
\* C19: after a successful UpdateOrderDetails(lineId, newAmount) the line stored
\* under lineId has amount equal to newAmount.
AdjustedLineHasNewAmount ==
  (AdjustedStoredLine /\ last.ok) => lines[last.id].amount = last.req.amount

(* ------------------------------- C20 ----------------------------------- *)
\* a CreateOrder request read up to its second line, whose first two lines name the
\* same stored product, each within its stock, together beyond it
OverSubscribedAcrossTwoLines ==
  /\ last.op = "CreateOrder"
  /\ Len(last.req.details) = 2
  /\ last.req.details[1].productId = last.req.details[2].productId
  /\ last.req.details[1].productId \in DOMAIN last.pre.products
  /\ LET stock == last.pre.products[last.req.details[1].productId].stock
     IN /\ last.req.details[1].amount <= stock
        /\ last.req.details[2].amount <= stock
        /\ last.req.details[1].amount + last.req.details[2].amount > stock

\* C20: within one CreateOrder request the stock check of a line sees the decrements
\* of the earlier lines: a request whose two lines name the same product, each within
\* its stock and together beyond it, fails at the second line with insufficient
\* stock, and no order and no line is persisted.
SecondLineSeesFirstDecrement ==
  OverSubscribedAcrossTwoLines =>
    /\ ~last.ok
    /\ last.err = "InsufficientStock"
    /\ last.id = 2
    /\ orders = last.pre.orders
    /\ lines = last.pre.lines
    /\ nextOrderId \notin DOMAIN orders

\* the example: two lines of 3 of a product whose stock is 5
ThreeAndThreeOfFive ==
  /\ OverSubscribedAcrossTwoLines
  /\ last.req.details[1].amount = 3
  /\ last.req.details[2].amount = 3
  /\ last.pre.products[last.req.details[1].productId].stock = 5
  /\ last.err = "InsufficientStock"
  /\ orders = last.pre.orders

(* ------------------------------- C15 ----------------------------------- *)
\* the stock changes the two requests in flight have sent for product p so far
IssuedTogether(p) == running.task["a"].issued[p] + running.task["b"].issued[p]

\* C15: the stock adjustments of order creation, status update and line adjustment
\* are atomic relative increments: when two requests adjust a product's stock
\* together by d1 and d2, in every interleaving the stock is the stock at their
\* arrival + d1 + d2, no adjustment is lost.
NoStockAdjustmentLost ==
  running.arrived =>
    \A p \in DOMAIN products :
      products[p].stock = running.base.products[p].stock + IssuedTogether(p)

\* the request of client c has returned or thrown
Finished(c) == running.arrived /\ running.task[c].pc \in {"done", "failed"}

\* two CreateOrder requests that both read the stock of one product before either
\* of them wrote it, and both wrote it
BothReadThenBothWrote ==
  /\ \A c \in Clients : Finished(c) /\ running.task[c].op = "CreateOrder"
                          /\ running.task[c].pc = "done"
  /\ \E p \in DOMAIN products :
       /\ \A c \in Clients :
            /\ running.task[c].orderData.details[1].productId = p
            /\ running.task[c].product.stock = running.base.products[p].stock
            /\ running.task[c].issued[p] < 0
       /\ products[p].stock = running.base.products[p].stock + IssuedTogether(p)

(* ------------------------------- C16 ----------------------------------- *)
\* both requests were UpdateOrderDetails on two different lines of one order
SiblingLinesAdjusted ==
  /\ \A c \in Clients : Finished(c) /\ running.task[c].op = "UpdateOrderDetails"
                          /\ running.task[c].detailId \in DOMAIN running.base.lines
  /\ running.task["a"].detailId # running.task["b"].detailId
  /\ running.base.lines[running.task["a"].detailId].orderId
       = running.base.lines[running.task["b"].detailId].orderId

\* the subtotal difference the request of client c has added to the order's total
AppliedDifference(c) ==
  IF running.task[c].pc = "done" THEN running.task[c].subtotalDifference ELSE 0

\* C16: when two UpdateOrderDetails requests run together on two different lines of
\* one order, in every interleaving the order's final total is its total at their
\* arrival plus both subtotal differences, and so still is the sum of the subtotals
\* of its lines.
SiblingAdjustmentsCompose ==
  SiblingLinesAdjusted =>
    LET o == running.base.lines[running.task["a"].detailId].orderId
        base == running.base
    IN /\ orders[o].total
            = base.orders[o].total + AppliedDifference("a") + AppliedDifference("b")
       /\ base.orders[o].total = SumSubtotals(base.lines, findAllByOrderId(base.lines, o))
            => orders[o].total = SumSubtotals(lines, findAllByOrderId(lines, o))

\* both requests returned and each moved the total
BothSiblingsMovedTotal ==
  /\ SiblingLinesAdjusted
  /\ \A c \in Clients : running.task[c].pc = "done" /\ running.task[c].subtotalDifference # 0
  /\ LET o == running.base.lines[running.task["a"].detailId].orderId
     IN /\ orders[o].total # running.base.orders[o].total
        /\ orders[o].total = SumSubtotals(lines, findAllByOrderId(lines, o))

(* ------------------------------- C21 ----------------------------------- *)
\* C21: when a CreateOrder request fails at line k (absent product or insufficient
\* stock), the stock decrements of its lines 1..k-1 remain applied, they are not
\* rolled back, although no order and no line is persisted.
EarlierDecrementsRemain ==
  CreateOrderRejected =>
    LET earlier == SubSeq(last.req.details, 1, last.id - 1)
    IN /\ \A p \in DOMAIN last.pre.products :
            products[p].stock = last.pre.products[p].stock - RequestedAmount(earlier, p)
       /\ orders = last.pre.orders
       /\ lines = last.pre.lines

\* a request rejected at its second line after its first line took stock
RejectedAfterFirstDecrement ==
  /\ CreateOrderRejected
  /\ last.id = 2
  /\ products[last.req.details[1].productId].stock
       = last.pre.products[last.req.details[1].productId].stock - last.req.details[1].amount
  /\ orders = last.pre.orders
  /\ lines = last.pre.lines

(* ------------------------------- C22 ----------------------------------- *)
\* an UpdateOrder on a stored order that asks for its current status or for no status
StatusKept ==
  /\ last.op = "UpdateOrder"
  /\ last.ok
  /\ \/ "status" \notin DOMAIN last.req
     \/ last.req.status = last.pre.orders[last.id].status

\* C22: an UpdateOrder whose requested status equals the order's current status
\* (true to true, false to false), or that supplies no status, changes no product's
\* stock.
KeptStatusKeepsStock == StatusKept => products = last.pre.products

\* a request for status false on an order of status false that has a line
FalseToFalseWithLines ==
  /\ StatusKept
  /\ "status" \in DOMAIN last.req
  /\ last.req.status = FALSE
  /\ findAllByOrderId(last.pre.lines, last.id) # {}
  /\ products = last.pre.products

(* ------------------------------- C23 ----------------------------------- *)
\* an UpdateOrder on an order id, or an UpdateOrderDetails on a line id, not stored
AbsentIdRequested ==
  \/ last.op = "UpdateOrder" /\ last.id \notin DOMAIN last.pre.orders
  \/ last.op = "UpdateOrderDetails" /\ last.id \notin DOMAIN last.pre.lines

\* C23: UpdateOrder on an order id that is not stored and UpdateOrderDetails on a
\* line id that is not stored each report not found (null result, thrown error) and
\* leave every product's stock, every order and every line unchanged.
AbsentIdChangesNothing ==
  AbsentIdRequested =>
    /\ ~last.ok
    /\ last.err = "NotFound"
    /\ products = last.pre.products
    /\ orders = last.pre.orders
    /\ lines = last.pre.lines

\* an UpdateOrderDetails on a line id that is not stored while another line is
AbsentLineBesideStoredLine ==
  /\ last.op = "UpdateOrderDetails"
  /\ last.id \notin DOMAIN last.pre.lines
  /\ last.pre.lines # <<>>
  /\ last.err = "NotFound"
  /\ lines = last.pre.lines

(* ------------------------------- C24 ----------------------------------- *)
\* an UpdateOrder with status true on a stored order whose status is false
ReactivationRequested ==
  /\ last.op = "UpdateOrder"
  /\ last.id \in DOMAIN last.pre.orders
  /\ last.pre.orders[last.id].status = FALSE
  /\ "status" \in DOMAIN last.req
  /\ last.req.status = TRUE

LineDeleted == last.op = "DeleteOrderDetails" /\ last.id \in DOMAIN last.pre.lines

\* C25: DeleteOrderDetails removes only that line record: the product's stock and
\* the parent order's total and status are unchanged by the deletion, whatever the
\* order's status.
DeletionRemovesOnlyTheLine ==
  LineDeleted =>
    /\ last.ok
    /\ DOMAIN lines = (DOMAIN last.pre.lines) \ {last.id}
    /\ \A l \in DOMAIN lines : lines[l] = last.pre.lines[l]
    /\ products = last.pre.products
    /\ orders = last.pre.orders

\* the deletion of one of the two lines of an order whose status is true
OneOfTwoLinesDeleted ==
  /\ LineDeleted
  /\ Cardinality(DOMAIN lines) = 1
  /\ last.pre.orders[last.pre.lines[last.id].orderId].status = TRUE
  /\ orders[last.pre.lines[last.id].orderId].total
       = last.pre.orders[last.pre.lines[last.id].orderId].total
  /\ orders[last.pre.lines[last.id].orderId].total > 0
  /\ products = last.pre.products

(* ------------------------------- C26 ----------------------------------- *)
\* what the request just served gives when it is served once more, on the
\* collections as they are now
SameRequestAgain ==
  UpdateOrderDetailsResult(products, orders, lines, last.id, last.req.amount)

\* C26: UpdateOrderDetails(lineId, n) applied twice in sequence gives the same state
\* as applied once: the second application changes neither the product's stock, nor
\* the line, nor the order's total.
SecondApplicationChangesNothing ==
  (AdjustedStoredLine /\ last.ok /\ steps < MaxSteps) =>
    /\ SameRequestAgain.products = products
    /\ SameRequestAgain.lines = lines
    /\ SameRequestAgain.orders = orders

(* ------------------------------- C27 ----------------------------------- *)
\* the product and the amount of the one line of the CreateOrder request of client c
ArrivedProduct(c) == running.task[c].orderData.details[1].productId
ArrivedAmount(c) == running.task[c].orderData.details[1].amount

\* two CreateOrder requests for one product, each within its stock at their arrival,
\* together beyond it
OverSubscribedTogether ==
  /\ running.arrived
  /\ \A c \in Clients : running.task[c].op = "CreateOrder"
  /\ ArrivedProduct("a") = ArrivedProduct("b")
  /\ ArrivedProduct("a") \in DOMAIN running.base.products
  /\ LET stock == running.base.products[ArrivedProduct("a")].stock
     IN /\ ArrivedAmount("a") <= stock
        /\ ArrivedAmount("b") <= stock
        /\ ArrivedAmount("a") + ArrivedAmount("b") > stock

\* C27: when two CreateOrder requests for the same product run together, each asking
\* at most the current stock and both together more, in every interleaving at most
\* one of them succeeds and the product's stock never becomes negative.
AtMostOneCreateOrderSucceeds ==
  OverSubscribedTogether =>
    /\ products[ArrivedProduct("a")].stock >= 0
    /\ ~(\A c \in Clients : running.task[c].pc = "done")

(* ------------------------------- C28 ----------------------------------- *)
\* two finished UpdateOrder requests with status false on one order whose status
\* was true at their arrival
CancelledTwiceTogether ==
  /\ \A c \in Clients :
       /\ Finished(c)
       /\ running.task[c].op = "UpdateOrder"
       /\ "status" \in DOMAIN running.task[c].updateData
       /\ running.task[c].updateData.status = FALSE
  /\ running.task["a"].orderId = running.task["b"].orderId
  /\ running.task["a"].orderId \in DOMAIN running.base.orders
  /\ running.base.orders[running.task["a"].orderId].status = TRUE

\* the lines of product p the order o had when the two requests arrived
ArrivedOrderLines(o, p) ==
  {l \in findAllByOrderId(running.base.lines, o) : running.base.lines[l].productId = p}

\* C28: when two UpdateOrder requests with status false run together on one order
\* whose status is true, in every interleaving each line's amount returns to its
\* product's stock exactly once: the stock ends at its value before plus the line
\* amounts, not plus twice the line amounts.
CancelledTogetherRestoresOnce ==
  CancelledTwiceTogether =>
    \A p \in DOMAIN products :
      products[p].stock
        = running.base.products[p].stock
            + SumAmounts(running.base.lines, ArrivedOrderLines(running.task["a"].orderId, p))

(* ------------------------------- C29 ----------------------------------- *)
\* two finished UpdateOrderDetails requests on one line stored at their arrival
SameLineAdjustedTogether ==
  /\ \A c \in Clients : Finished(c) /\ running.task[c].op = "UpdateOrderDetails"
  /\ running.task["a"].detailId = running.task["b"].detailId
  /\ running.task["a"].detailId \in DOMAIN running.base.lines

\* C29: when two UpdateOrderDetails requests run together on the same line, in every
\* interleaving the final state has order.total = the sum of the order's line
\* subtotals, and the product's stock has changed by exactly the line's amount at
\* their arrival minus the line's final amount.
SameLineAdjustmentsStayConsistent ==
  SameLineAdjustedTogether =>
    LET l == running.task["a"].detailId
        o == running.base.lines[l].orderId
        p == running.base.lines[l].productId
    IN /\ orders[o].total = SumSubtotals(lines, findAllByOrderId(lines, o))
       /\ products[p].stock
            = running.base.products[p].stock + running.base.lines[l].amount - lines[l].amount

(* ------------------------------- C30 ----------------------------------- *)
\* C30: UpdateOrder never changes the order's total and never changes any order
\* line, whatever fields the update payload contains: after it the order's total
\* and all of its lines are the same as before.
UpdateOrderKeepsTotalAndLines ==
  (last.op = "UpdateOrder" /\ last.ok) =>
    /\ orders[last.id].total = last.pre.orders[last.id].total
    /\ lines = last.pre.lines

====
